---- MODULE Spec2Model ----
(***************************************************************************)
(* Model of the template-driven report compiler of reagent_table:          *)
(* src/excel.py and src/export_excel.py (generate_excel_from_template and  *)
(* its helpers).  Text is modelled as sequences of one-character strings,  *)
(* so that splitting, stripping, joining and wrapping are computed the way *)
(* Python computes them.  The atom "BULLET" stands for the single code     *)
(* point U+2022.                                                           *)
(***************************************************************************)
EXTENDS Integers, Sequences, FiniteSets, TLC

VARIABLES
    variant,      \* which script runs: "excel" or "export_excel"
    pc,           \* position in generate_excel_from_template / the helper under test
    db_exists,    \* os.path.exists(DB_PATH)
    dir_exists,   \* os.path.exists(TEMPLATE_DIR)
    chooser,      \* how template_path is obtained: "given", "none_found", "bad_choice", "chosen"
    template,     \* template["columns"]: sequence of column specs
    df_core,      \* rows of table compounds
    df_props,     \* rows of table compound_properties_wide
    tables_read,  \* both read_sql_query calls have run
    merged,       \* the merged frame: sequence of [idx, f]
    ws,           \* sheet rows appended so far (row 1 is the header)
    images,       \* images added to the sheet: set of [row, col, w, h, lines, rec]
    wrap_cells,   \* cells given Alignment(wrap_text=True)
    tmp_files,    \* temporary PNG files on disk, named by the cell they were made for
    row_height,   \* ws.row_dimensions[r].height (None modelled as NoDim)
    col_width,    \* ws.column_dimensions[c].width (None modelled as NoDim)
    ri,           \* loop position over merged rows
    cj,           \* loop position over template columns
    saved,        \* wb.save(EXCEL_PATH) has run
    err,          \* the exception that ended the run, or NoErr
    arg,          \* argument of the helper under test
    ret           \* its returned value

vars == <<variant, pc, db_exists, dir_exists, chooser, template, df_core, df_props,
          tables_read, merged, ws, images, wrap_cells, tmp_files, row_height,
          col_width, ri, cj, saved, err, arg, ret>>

pipeVars == <<db_exists, dir_exists, chooser, template, df_core, df_props,
              tables_read, merged, ws, images, wrap_cells, tmp_files,
              row_height, col_width, ri, cj, saved, err>>

Variants == {"excel", "export_excel"}

-----------------------------------------------------------------------------
(* Values held by a frame cell or a sheet cell. *)

StrV(s) == [k |-> "str", s |-> s]
NaN == [k |-> "nan", s |-> <<>>]
None == [k |-> "none", s |-> <<>>]
Empty == StrV(<<>>)

IsStr(v) == v.k = "str"
\* pd.notna(value)
notna(v) == v.k = "str"

-----------------------------------------------------------------------------
(* Python string operations on character sequences. *)

Whitespace == {" ", "\n", "\t"}

\* sep.join(parts[lo..hi]), by halves
RECURSIVE JoinRange(_, _, _, _)
JoinRange(sep, parts, lo, hi) ==
    IF lo > hi THEN <<>>
    ELSE IF lo = hi THEN parts[lo]
    ELSE LET mid == (lo + hi) \div 2
         IN  JoinRange(sep, parts, lo, mid) \o sep \o JoinRange(sep, parts, mid + 1, hi)

\* sep.join(parts)
Join(sep, parts) == JoinRange(sep, parts, 1, Len(parts))

\* s[lo..hi] cut at every character of seps, by halves: never empty, keeps
\* empty pieces
RECURSIVE CutRange(_, _, _, _)
CutRange(s, seps, lo, hi) ==
    IF lo > hi THEN << <<>> >>
    ELSE IF lo = hi THEN (IF s[lo] \in seps THEN << <<>>, <<>> >> ELSE << <<s[lo]>> >>)
    ELSE LET mid == (lo + hi) \div 2
             a == CutRange(s, seps, lo, mid)
             b == CutRange(s, seps, mid + 1, hi)
         IN  SubSeq(a, 1, Len(a) - 1) \o << a[Len(a)] \o b[1] >> \o SubSeq(b, 2, Len(b))

\* s.split(ch)
SplitOn(s, ch) == CutRange(s, {ch}, 1, Len(s))

NotEmpty(piece) == piece # <<>>

\* s.split(): runs of whitespace separate tokens, no empty tokens
Split(s) == SelectSeq(CutRange(s, Whitespace, 1, Len(s)), NotEmpty)

\* s.strip(chars)
RECURSIVE LStrip(_, _)
LStrip(s, chars) ==
    IF s # <<>> /\ Head(s) \in chars THEN LStrip(Tail(s), chars) ELSE s

RECURSIVE RStrip(_, _)
RStrip(s, chars) ==
    IF s # <<>> /\ s[Len(s)] \in chars THEN RStrip(SubSeq(s, 1, Len(s) - 1), chars) ELSE s

Strip(s, chars) == RStrip(LStrip(s, chars), chars)

\* s.count(ch)
Count(s, ch) == Cardinality({p \in 1..Len(s) : s[p] = ch})

NotBlank(piece) == Strip(piece, Whitespace) # <<>>

\* [p for p in parts if p.strip()]
DropBlank(parts) == SelectSeq(parts, NotBlank)

\* seq[:n]
Take(seq, n) == SubSeq(seq, 1, IF Len(seq) < n THEN Len(seq) ELSE n)

-----------------------------------------------------------------------------
(* summarize_text *)

MaxLines == 5

\* the line marker of summarize_text: "\n<bullet> " in export_excel.py, "\n " in excel.py
Marker(v) == IF v = "export_excel" THEN <<"\n", "BULLET", " ">> ELSE <<"\n", " ">>

\* a summary that keeps the blank segments
SummaryParts_keepblank(text) ==
    LET kept == SplitOn(text, ";")
    IN  [n \in 1..Len(kept) |-> Strip(kept[n], {" ", ";", ","})]

SummaryParts(text) ==
    LET kept == DropBlank(SplitOn(text, ";"))
    IN  [n \in 1..Len(kept) |-> Strip(kept[n], {" ", ";", ","})]

summarize_text(v, value) ==
    IF ~IsStr(value) THEN value
    ELSE LET parts == SummaryParts(value.s)
         IN  StrV(Marker(v) \o Join(Marker(v), Take(parts, MaxLines))
                  \o (IF Len(parts) > MaxLines THEN <<"\n", ".", ".", ".">> ELSE <<>>))

-----------------------------------------------------------------------------
(* Column names of the two tables, spelled out as text. *)

F_name == <<"n", "a", "m", "e">>
F_image_path == <<"i", "m", "a", "g", "e", "_", "p", "a", "t", "h">>

\* property names are columns of compound_properties_wide
F_Hazards == <<"H", "a", "z", "a", "r", "d", "s">>
F_Uses == <<"U", "s", "e", "s">>
F_OtherSafety == <<"O", "t", "h", "e", "r", " ", "S", "a", "f", "e", "t", "y", " ", "I", "n", "f", "o", "r", "m", "a", "t", "i", "o", "n">>
F_Corrosivity == <<"C", "o", "r", "r", "o", "s", "i", "v", "i", "t", "y">>
F_FireFighting == <<"F", "i", "r", "e", " ", "F", "i", "g", "h", "t", "i", "n", "g">>
F_Exposure == <<"E", "x", "p", "o", "s", "u", "r", "e", " ", "C", "o", "n", "t", "r", "o", "l", " ", "a", "n", "d", " ", "P", "e", "r", "s", "o", "n", "a", "l", " ", "P", "r", "o", "t", "e", "c", "t", "i", "o", "n">>
F_FirstAid == <<"F", "i", "r", "s", "t", " ", "A", "i", "d", " ", "M", "e", "a", "s", "u", "r", "e", "s">>
F_Accidental == <<"A", "c", "c", "i", "d", "e", "n", "t", "a", "l", " ", "R", "e", "l", "e", "a", "s", "e", " ", "M", "e", "a", "s", "u", "r", "e", "s">>
F_Structure == <<"S", "t", "r", "u", "c", "t", "u", "r", "e">>

CoreFields == {F_name, F_image_path}
PropFields == {F_Hazards, F_Uses, F_OtherSafety, F_Corrosivity, F_FireFighting,
               F_Exposure, F_FirstAid, F_Accidental, F_Structure}

\* a column spec or component that names no field: col.get("field") is None
NoField == <<"<", "n", "o", "n", "e", ">">>

UpperCase == <<"A", "B", "C", "D", "E", "F", "G", "H", "I", "J", "K", "L", "M",
               "N", "O", "P", "Q", "R", "S", "T", "U", "V", "W", "X", "Y", "Z">>
LowerCase == <<"a", "b", "c", "d", "e", "f", "g", "h", "i", "j", "k", "l", "m",
               "n", "o", "p", "q", "r", "s", "t", "u", "v", "w", "x", "y", "z">>

\* s.lower()
Lower(s) ==
    [p \in 1..Len(s) |->
        IF \E u \in 1..Len(UpperCase) : UpperCase[u] = s[p]
        THEN LowerCase[CHOOSE u \in 1..Len(UpperCase) : UpperCase[u] = s[p]]
        ELSE s[p]]

\* sub in s
Contains(s, sub) ==
    \E p \in 0..(Len(s) - Len(sub)) : SubSeq(s, p + 1, p + Len(sub)) = sub

\* "hazard" in field.lower() or "safety" in field.lower()
IsHazardField(field) ==
    \/ Contains(Lower(field), <<"h", "a", "z", "a", "r", "d">>)
    \/ Contains(Lower(field), <<"s", "a", "f", "e", "t", "y">>)

\* row.get(field, default)
Get(row, field, default) == IF field \in DOMAIN row.f THEN row.f[field] ELSE default

-----------------------------------------------------------------------------
(* Texts used as table contents. *)

Digits == <<"0", "1", "2", "3", "4", "5", "6", "7", "8", "9">>

\* the k-th word of a generated text: two digits, so that words are distinct
Tok(k) == <<Digits[(k \div 10) + 1], Digits[(k % 10) + 1]>>

\* a text of n distinct words separated by single spaces
Words(n) == Join(<<" ">>, [k \in 1..n |-> Tok(k)])

\* a text of n segments separated by "; "
Segments(n) == Join(<<";", " ">>, [k \in 1..n |-> <<"H">> \o Tok(k)])

Mild == <<"M", "i", "l", "d">>

-----------------------------------------------------------------------------
(* The database: table compounds and table compound_properties_wide. *)

MaxCore == 6
SampleSize == 5

\* the image file of compound c as stored in column image_path
ImagePath(c) == <<"i", "m", "g">> \o Tok(c)

\* os.path.exists(path) for the stored image paths
PathExists(path) == path \in {ImagePath(1), ImagePath(3), ImagePath(4), ImagePath(5), ImagePath(6), ImagePath(8)}

\* PIL size (width, height) of the image stored at path
ImageSize(path) ==
    IF path = ImagePath(1) THEN <<300, 300>>
    ELSE IF path = ImagePath(3) THEN <<600, 200>>
    ELSE IF path = ImagePath(4) THEN <<48, 100>>
    ELSE <<300, 120>>

\* row of table compounds for compound c
CoreRow(c) ==
    [cid |-> c,
     f |-> (F_name :> StrV(<<"c">> \o Tok(c)) @@
            F_image_path :> (IF c = 7 THEN None ELSE StrV(ImagePath(c))))]

NullProps == [p \in PropFields |-> None]

\* row of table compound_properties_wide for compound c (NULL where the
\* compound has no such property)
PropsRow(c) ==
    [cid |-> c,
     f |-> IF c = 1 THEN [NullProps EXCEPT ![F_Hazards] = StrV(Segments(7)),
                                           ![F_Uses] = StrV(Words(41)),
                                           ![F_Corrosivity] = StrV(Mild),
                                           ![F_Structure] = StrV(ImagePath(8))]
           ELSE IF c = 3 THEN [NullProps EXCEPT ![F_Hazards] = StrV(Segments(2)),
                                                ![F_Uses] = StrV(Words(16)),
                                                ![F_OtherSafety] = StrV(Words(40)),
                                                ![F_FirstAid] = StrV(<<" ">>)]
           ELSE IF c = 5 THEN [NullProps EXCEPT ![F_Uses] = StrV(Words(3)),
                                                ![F_FireFighting] = StrV(Words(12))]
           ELSE [NullProps EXCEPT ![F_Corrosivity] = StrV(Mild)]]

\* compounds that have a row in compound_properties_wide; 9 has no core row
PropsIds == <<1, 3, 5, 9>>

\* the database sizes considered: empty, fewer than the sample size, the
\* sample size, and the largest
CoreSizes == {0, 3, SampleSize, MaxCore}

\* SELECT * FROM compounds, for a database of n compounds
CoreTable(n) == [c \in 1..n |-> CoreRow(c)]

\* SELECT * FROM compound_properties_wide
PropsTable == [k \in 1..Len(PropsIds) |-> PropsRow(PropsIds[k])]

-----------------------------------------------------------------------------
(* df_core.merge(df_props, on="cid", how="left") *)

\* the rows of props that carry the key of the core row, in table order
RECURSIVE Matches(_, _)
Matches(c, props) ==
    IF props = <<>> THEN <<>>
    ELSE (IF Head(props).cid = c.cid THEN <<Head(props)>> ELSE <<>>)
         \o Matches(c, Tail(props))

\* an inner join in place of the left join: a core row without properties is dropped
JoinRow_inner(c, props) ==
    LET m == Matches(c, props)
    IN  [k \in 1..Len(m) |-> [cid |-> c.cid, f |-> c.f @@ m[k].f]]

\* one core row joined to its matches: NaN in every properties column when
\* there is none
JoinRow(c, props) ==
    LET m == Matches(c, props)
    IN  IF m = <<>>
        THEN <<[cid |-> c.cid, f |-> c.f @@ [p \in PropFields |-> NaN]]>>
        ELSE [k \in 1..Len(m) |-> [cid |-> c.cid, f |-> c.f @@ m[k].f]]

RECURSIVE JoinRows(_, _)
JoinRows(core, props) ==
    IF core = <<>> THEN <<>>
    ELSE JoinRow(Head(core), props) \o JoinRows(Tail(core), props)

\* the merged frame: rows carry the index labels 0, 1, ...
LeftJoin(core, props) ==
    LET rows == JoinRows(core, props)
    IN  [k \in 1..Len(rows) |-> [idx |-> k - 1, cid |-> rows[k].cid, f |-> rows[k].f]]

-----------------------------------------------------------------------------
(* merged.sample(5, random_state=42) *)

\* a generator that is not re-seeded: a later run of the script draws other positions
SamplePositions_unseeded(n) ==
    IF "ws" \in DOMAIN arg THEN <<0, 1, 2, 3, 4>> ELSE <<1, 4, 2, 0, 3>>

\* positions drawn by RandomState(42).permutation(n)[:5]
SamplePositions(n) ==
    IF n = 5 THEN <<1, 4, 2, 0, 3>>
    ELSE IF n \in {6, 7} THEN <<0, 1, 5, 2, 4>>
    ELSE <<1, 5, 0, 7, 2>>

\* the sampled frame keeps the index labels of the rows it draws
Sample(frame) ==
    IF Len(frame) >= SampleSize
    THEN [k \in 1..SampleSize |-> frame[SamplePositions(Len(frame))[k] + 1]]
    ELSE frame

-----------------------------------------------------------------------------
(* Text shaping shared by the column kinds. *)

WrapWidth == 15
SummarizeOver == 40
TruncateTo == 30

Ellipsis == <<".", ".", ".">>

\* "\n".join(" ".join(words[i:i+15]) for i in range(0, len(words), 15))
RECURSIVE WrapWords(_)
WrapWords(words) ==
    IF Len(words) <= WrapWidth THEN Join(<<" ">>, words)
    ELSE Join(<<" ">>, SubSeq(words, 1, WrapWidth)) \o <<"\n">>
         \o WrapWords(SubSeq(words, WrapWidth + 1, Len(words)))

-----------------------------------------------------------------------------
(* generate_hazards_summary *)

hazard_fields == <<F_OtherSafety, F_Corrosivity, F_FireFighting, F_Exposure,
                   F_FirstAid, F_Accidental>>

\* the "<field>: <value>" entries of the fields that are set and not blank
RECURSIVE SummaryEntries(_, _)
SummaryEntries(row, fields) ==
    IF fields = <<>> THEN <<>>
    ELSE LET val == Get(row, Head(fields), Empty)
         IN  (IF notna(val) /\ Strip(val.s, Whitespace) # <<>>
              THEN <<Head(fields) \o <<":", " ">> \o val.s>>
              ELSE <<>>)
             \o SummaryEntries(row, Tail(fields))

\* a summary that re-wraps from 40 words on instead of from 41
generate_hazards_summary_from40(row) ==
    LET summary == Join(<<"\n">>, SummaryEntries(row, hazard_fields))
        words == Split(summary)
    IN  IF Len(words) >= SummarizeOver THEN WrapWords(words) ELSE summary

generate_hazards_summary(row) ==
    LET summary == Join(<<"\n">>, SummaryEntries(row, hazard_fields))
        words == Split(summary)
    IN  IF Len(words) > SummarizeOver THEN WrapWords(words) ELSE summary

-----------------------------------------------------------------------------
(* Pass 1: the value of one cell. *)

\* a validator that lets the kind "chart" through
ValidTypes_lax == {"text", "image", "composite", "blank", "computed", "chart"}

ValidTypes == {"text", "image", "composite", "blank", "computed"}

\* one text component of a composite column: <<>> when the value is missing,
\* else the one-element list holding prefix + shaped value
ComponentText(v, row, comp) ==
    LET value == Get(row, comp.field, Empty)
        shaped == IF IsHazardField(comp.field) THEN summarize_text(v, value).s
                  ELSE IF comp.summarize /\ Len(Split(value.s)) > SummarizeOver
                       THEN Join(<<" ">>, Take(Split(value.s), TruncateTo)) \o Ellipsis
                       ELSE value.s
        wrapped == IF Len(Split(shaped)) > WrapWidth THEN WrapWords(Split(shaped)) ELSE shaped
    IN  IF comp.type = "text" /\ notna(value) THEN <<comp.prefix \o wrapped>> ELSE <<>>

RECURSIVE ComponentTexts(_, _, _)
ComponentTexts(v, row, comps) ==
    IF comps = <<>> THEN <<>>
    ELSE ComponentText(v, row, Head(comps)) \o ComponentTexts(v, row, Tail(comps))

\* the second wrap of a composite's content lines: excel.py leaves a line of
\* at most 15 words as it is, export_excel.py re-joins every line
Rewrap(v, line) ==
    IF v = "excel" /\ Len(Split(line)) <= WrapWidth THEN line ELSE WrapWords(Split(line))

CompositeText(v, row, col) ==
    LET content == ComponentTexts(v, row, col.components)
    IN  Join(<<"\n">>, [k \in 1..Len(content) |-> Rewrap(v, content[k])])

\* the value appended for a column of kind text
TextValue(v, row, col) ==
    LET value == Get(row, col.field, Empty)
    IN  IF ~IsStr(value) THEN value
        ELSE IF col.summarize THEN summarize_text(v, value)
        ELSE IF Len(Split(value.s)) > WrapWidth THEN StrV(WrapWords(Split(value.s)))
        ELSE value

Registered == {"generate_hazards_summary"}

\* what one column adds to excel_row: a list of zero or one values
CellValues(v, row, col) ==
    IF col.type = "composite" THEN <<StrV(CompositeText(v, row, col))>>
    ELSE IF col.type \in {"image", "blank"} THEN <<Empty>>
    ELSE IF col.type = "computed"
         THEN (IF col.function \in Registered
               THEN <<StrV(generate_hazards_summary(row))>>
               ELSE <<>>)
    ELSE <<TextValue(v, row, col)>>

RECURSIVE ExcelRow(_, _, _)
ExcelRow(v, row, cols) ==
    IF cols = <<>> THEN <<>>
    ELSE CellValues(v, row, Head(cols)) \o ExcelRow(v, row, Tail(cols))

\* field.lower() on a text component that names no field
Pass1Raises(row, cols) ==
    \E j \in 1..Len(cols) :
        /\ cols[j].type = "composite"
        /\ \E k \in 1..Len(cols[j].components) :
              /\ cols[j].components[k].type = "text"
              /\ cols[j].components[k].field = NoField

-----------------------------------------------------------------------------
(* Templates: the column specs a template document can hold. *)

NoType == "<none>"

Col(type, header, field, summarize, function, components, text_position) ==
    [type |-> type, header |-> header, field |-> field, summarize |-> summarize,
     function |-> function, components |-> components, text_position |-> text_position]

Comp(type, field, prefix, summarize) ==
    [type |-> type, field |-> field, prefix |-> prefix, summarize |-> summarize]

NameCol == Col("text", <<"N", "a", "m", "e">>, F_name, FALSE, "", <<>>, "bottom")
HazardsCol == Col("text", <<"H", "a", "z", "a", "r", "d", "s">>, F_Hazards, TRUE, "", <<>>, "bottom")
UsesCol == Col("text", <<"U", "s", "e", "s">>, F_Uses, FALSE, "", <<>>, "bottom")
NoFieldCol == Col("text", <<"N", "o", "t", "e", "s">>, NoField, FALSE, "", <<>>, "bottom")
BlankCol == Col("blank", <<>>, NoField, FALSE, "", <<>>, "bottom")
ImageCol == Col("image", <<"I", "m", "a", "g", "e">>, F_image_path, FALSE, "", <<>>, "bottom")
SummaryCol == Col("computed", <<"S", "a", "f", "e", "t", "y">>, NoField, FALSE, "generate_hazards_summary", <<>>, "bottom")
UnregisteredCol == Col("computed", <<"S", "c", "o", "r", "e">>, NoField, FALSE, "hazard_score", <<>>, "bottom")
ChartCol == Col("chart", <<"C", "h", "a", "r", "t">>, NoField, FALSE, "", <<>>, "bottom")
UntypedCol == Col(NoType, <<"M", "i", "s", "c">>, F_name, FALSE, "", <<>>, "bottom")

StructureCol ==
    Col("composite", <<"S", "t", "r", "u", "c", "t", "u", "r", "e">>, NoField, FALSE, "",
        <<Comp("image", F_image_path, <<>>, FALSE),
          Comp("text", F_name, <<>>, FALSE),
          Comp("text", F_Uses, <<"U", "s", "e", "s", ":", " ">>, TRUE)>>, "bottom")

HazardCardCol ==
    Col("composite", <<"C", "a", "r", "d">>, NoField, FALSE, "",
        <<Comp("text", F_Hazards, <<"G", "H", "S", " ">>, FALSE),
          Comp("image", F_Structure, <<>>, FALSE)>>, "top")

PictureCol ==
    Col("composite", <<"P", "i", "c", "t", "u", "r", "e">>, NoField, FALSE, "",
        <<Comp("image", F_image_path, <<>>, FALSE)>>, "bottom")

TwoImagesCol ==
    Col("composite", <<"B", "o", "t", "h">>, NoField, FALSE, "",
        <<Comp("image", F_Structure, <<>>, FALSE),
          Comp("image", F_image_path, <<>>, FALSE),
          Comp("text", F_name, <<>>, FALSE)>>, "bottom")

EmptyCompositeCol == Col("composite", <<"E", "m", "p", "t", "y">>, NoField, FALSE, "", <<>>, "bottom")

UnnamedTextCol ==
    Col("composite", <<"L", "o", "o", "s", "e">>, NoField, FALSE, "",
        <<Comp("text", NoField, <<>>, FALSE)>>, "bottom")

ColSpecs == {NameCol, HazardsCol, UsesCol, NoFieldCol, BlankCol, ImageCol, SummaryCol,
             UnregisteredCol, ChartCol, UntypedCol, StructureCol, HazardCardCol,
             PictureCol, TwoImagesCol, EmptyCompositeCol, UnnamedTextCol}

\* template["columns"] of the template documents considered: one or two columns
Templates == {<<a>> : a \in ColSpecs} \cup {<<a, b>> : a, b \in ColSpecs}

\* [col.get("header", "") for col in template["columns"]]
Headers(cols) == [j \in 1..Len(cols) |-> StrV(cols[j].header)]

-----------------------------------------------------------------------------
(* The sheet.  Row heights are kept in quarter points and column widths in  *)
(* sixths of a width unit, so that h * 0.75, w / 6 and n / 1.5 + 2 stay     *)
(* integers: a height H is stored as 4*H, a width W as 6*W.                 *)

NoDim == 0 - 1

\* dims[k], None when the dimension was never set
Dim(dims, k) == IF k \in DOMAIN dims THEN dims[k] ELSE NoDim

\* (x or default)
Or(x, default) == IF x = NoDim \/ x = 0 THEN default ELSE x

Max(a, b) == IF a >= b THEN a ELSE b
Min(a, b) == IF a <= b THEN a ELSE b

SetDim(dims, k, x) == [i \in DOMAIN dims \cup {k} |-> IF i = k THEN x ELSE dims[i]]

\* ws.cell(row=r, column=c): the cell is created, holding None, when it is not there
EnsureCell(sheet, r, c) ==
    [i \in 1..Max(Len(sheet), r) |->
        LET old == IF i <= Len(sheet) THEN sheet[i] ELSE <<>>
        IN  IF i = r
            THEN [k \in 1..Max(Len(old), c) |-> IF k <= Len(old) THEN old[k] ELSE None]
            ELSE old]

\* ws.max_row
MaxRow(sheet) ==
    LET used == {i \in 1..Len(sheet) : Len(sheet[i]) > 0}
    IN  IF used = {} THEN 1 ELSE CHOOSE i \in used : \A k \in used : k <= i

\* str(cell.value or "")
CellText(value) == IF value.k = "nan" THEN <<"n", "a", "n">> ELSE value.s

-----------------------------------------------------------------------------
(* Pass 2: composite images. *)

LineBoxHeight == 11
LineSpacing == 5
BandMargin == 10
MinWidth == 10

\* the text_lines of pass 2: prefix + raw value of every text component that is set
RECURSIVE TextLines(_, _)
TextLines(row, comps) ==
    IF comps = <<>> THEN <<>>
    ELSE (IF Head(comps).type = "text" /\ notna(Get(row, Head(comps).field, Empty))
          THEN <<Head(comps).prefix \o Get(row, Head(comps).field, Empty).s>>
          ELSE <<>>)
         \o TextLines(row, Tail(comps))

\* image_path after the component loop: the value of the last image component
RECURSIVE ImagePathOf(_, _, _)
ImagePathOf(row, comps, sofar) ==
    IF comps = <<>> THEN sofar
    ELSE ImagePathOf(row, Tail(comps),
                     IF Head(comps).type = "image"
                     THEN Get(row, Head(comps).field, None)
                     ELSE sofar)

\* comp["field"] on a component without a field
MissingFieldKey(col) ==
    \E k \in 1..Len(col.components) :
        /\ col.components[k].type \in {"text", "image"}
        /\ col.components[k].field = NoField

\* size of the image make_composite_image returns: excel.py draws the band
\* onto the base image, export_excel.py adds the band to its height
make_composite_image(v, path, text_lines) ==
    LET base == ImageSize(path)
        text_height == LineBoxHeight * Len(text_lines) + LineSpacing * (Len(text_lines) - 1)
    IN  IF v = "excel" THEN base ELSE <<base[1], base[2] + text_height + BandMargin>>

NoExc == [exc |-> "", what |-> "", kind |-> ""]
Exc(exc, what, kind) == [exc |-> exc, what |-> what, kind |-> kind]

\* the row of the sheet that pass 2 addresses for a merged row
AnchorRow(row) == row.idx + 2

\* one column of one merged row in pass 2, on the sheet state st
Pass2Cell(st, v, row, j, col) ==
    IF st.exc # NoExc \/ col.type # "composite" THEN st
    ELSE IF MissingFieldKey(col) THEN [st EXCEPT !.exc = Exc("KeyError", "component_field", "")]
    ELSE LET text_lines == TextLines(row, col.components)
             image_path == ImagePathOf(row, col.components, None)
         IN  IF image_path.k = "none" \/ image_path = Empty THEN st
             ELSE IF image_path.k = "nan"
                  THEN [st EXCEPT !.exc = Exc("TypeError", "path_exists", "")]
             ELSE IF ~PathExists(image_path.s) THEN st
             ELSE IF v = "excel" /\ text_lines = <<>>
                  THEN [st EXCEPT !.exc = Exc("ValueError", "max_of_empty", "")]
             ELSE LET size == make_composite_image(v, image_path.s, text_lines)
                      r == AnchorRow(row)
                  IN  [st EXCEPT
                         !.tmp = @ \cup {<<r, j>>},
                         !.ws = EnsureCell(@, r, j),
                         !.images = @ \cup {[row |-> r, col |-> j, w |-> size[1],
                                            h |-> size[2], lines |-> text_lines,
                                            rec |-> row.idx]},
                         !.rh = SetDim(@, r, Max(Or(Dim(@, r), 0), 3 * size[2])),
                         !.cw = SetDim(@, j, Max(Or(Dim(@, j), 6 * MinWidth), size[1]))]

-----------------------------------------------------------------------------
(* Pass 3: sizing of one column. *)

MaxWidth == 70
LineHeight == 15

LineCount(text) == IF text # <<>> THEN Count(text, "\n") + 1 ELSE 1

\* the sheet after ws.cell(row=i, column=j) for every i up to max_row
TouchColumn(sheet, j) ==
    [i \in 1..Len(sheet) |->
        IF i <= MaxRow(sheet)
        THEN [k \in 1..Max(Len(sheet[i]), j) |->
                 IF k <= Len(sheet[i]) THEN sheet[i][k] ELSE None]
        ELSE sheet[i]]

\* a scan that sets the height of a multi-line row to 15 per line, whatever
\* height the row had
RaiseHeights_overwrite(rh, sheet, j) ==
    LET tall == {i \in 1..MaxRow(sheet) : LineCount(CellText(sheet[i][j])) > 1}
    IN  [i \in DOMAIN rh \cup tall |->
            IF i \in tall THEN LineCount(CellText(sheet[i][j])) * 4 * LineHeight
            ELSE rh[i]]

\* the row heights after the scan of column j (excel.py only): a row whose
\* cell has more than one line is raised to 15 per line
RaiseHeights(rh, sheet, j) ==
    LET tall == {i \in 1..MaxRow(sheet) : LineCount(CellText(sheet[i][j])) > 1}
    IN  [i \in DOMAIN rh \cup tall |->
            IF i \in tall
            THEN Max(Or(Dim(rh, i), 4 * LineHeight),
                     LineCount(CellText(sheet[i][j])) * 4 * LineHeight)
            ELSE rh[i]]

\* max_length after the scan of column j
MaxLength(sheet, j) ==
    LET lens == {Len(CellText(sheet[i][j])) : i \in 1..MaxRow(sheet)}
    IN  CHOOSE n \in lens : \A m \in lens : m <= n

\* the cells of column j given wrap_text
WrapCells(v, sheet, j, col) ==
    {<<i, j>> : i \in {i \in 1..MaxRow(sheet) :
        IF v = "excel"
        THEN Count(CellText(sheet[i][j]), "\n") > 0 \/ col.type = "composite"
        ELSE Len(Split(CellText(sheet[i][j]))) > WrapWidth}}

\* a fit that starts from the minimum and forgets the width pass 2 has set
FittedWidth_fromtext(width, max_length) ==
    Min(Max(6 * MinWidth, 4 * max_length + 12), 6 * MaxWidth)

\* min(max(width or 10, max_length / 1.5 + 2), 70)
FittedWidth(width, max_length) ==
    Min(Max(Or(width, 6 * MinWidth), 4 * max_length + 12), 6 * MaxWidth)

-----------------------------------------------------------------------------
(* generate_excel_from_template, one action per step. *)

Unknown == "?"

\* the run has not started: nothing checked, read or written
Idle ==
    /\ db_exists = Unknown /\ dir_exists = Unknown /\ chooser = Unknown
    /\ tables_read = FALSE /\ merged = <<>> /\ ws = <<>> /\ images = {}
    /\ wrap_cells = {} /\ tmp_files = {}
    /\ row_height = <<>> /\ col_width = <<>>
    /\ ri = 0 /\ cj = 0 /\ saved = FALSE /\ err = NoExc

Init ==
    /\ variant \in Variants
    /\ pc = "check_db"
    /\ template \in Templates
    /\ \E n \in CoreSizes : df_core = CoreTable(n)
    /\ df_props = PropsTable
    /\ Idle
    /\ arg = None /\ ret = None

Fail(e) == pc' = "failed" /\ err' = e

\* if not os.path.exists(DB_PATH): raise FileNotFoundError
CheckDb ==
    /\ pc = "check_db"
    /\ \E e \in BOOLEAN :
          /\ db_exists' = e
          /\ IF e THEN pc' = "check_dir" /\ err' = err
                  ELSE Fail(Exc("FileNotFoundError", "database", ""))
    /\ UNCHANGED <<variant, dir_exists, chooser, template, df_core, df_props, tables_read,
                   merged, ws, images, wrap_cells, tmp_files, row_height, col_width,
                   ri, cj, saved, arg, ret>>

\* if not os.path.exists(TEMPLATE_DIR): raise FileNotFoundError
CheckTemplateDir ==
    /\ pc = "check_dir"
    /\ \E e \in BOOLEAN :
          /\ dir_exists' = e
          /\ IF e THEN pc' = "choose" /\ err' = err
                  ELSE Fail(Exc("FileNotFoundError", "template_dir", ""))
    /\ UNCHANGED <<variant, db_exists, chooser, template, df_core, df_props, tables_read,
                   merged, ws, images, wrap_cells, tmp_files, row_height, col_width,
                   ri, cj, saved, arg, ret>>

\* template_path is given, or choose_template() lists the directory and asks
choose_template ==
    /\ pc = "choose"
    /\ \E c \in {"given", "chosen", "no_templates", "invalid_selection"} :
          /\ chooser' = c
          /\ IF c = "no_templates" THEN Fail(Exc("FileNotFoundError", "no_templates", ""))
             ELSE IF c = "invalid_selection" THEN Fail(Exc("ValueError", "invalid_selection", ""))
             ELSE pc' = "validate" /\ err' = err
    /\ UNCHANGED <<variant, db_exists, dir_exists, template, df_core, df_props, tables_read,
                   merged, ws, images, wrap_cells, tmp_files, row_height, col_width,
                   ri, cj, saved, arg, ret>>

\* the kind of the first column whose type is not one of the valid types
FirstInvalid(cols) ==
    LET bad == {j \in 1..Len(cols) : cols[j].type \notin ValidTypes}
    IN  IF bad = {} THEN 0 ELSE CHOOSE j \in bad : \A k \in bad : j <= k

\* load_template, then the loop over template["columns"] that checks col.get("type")
ValidateTemplate ==
    /\ pc = "validate"
    /\ LET j == FirstInvalid(template)
       IN  IF j = 0 THEN pc' = "read" /\ err' = err
           ELSE Fail(Exc("ValueError", "unknown_column_type", template[j].type))
    /\ UNCHANGED <<variant, db_exists, dir_exists, chooser, template, df_core, df_props,
                   tables_read, merged, ws, images, wrap_cells, tmp_files, row_height,
                   col_width, ri, cj, saved, arg, ret>>

\* sqlite3.connect, the two read_sql_query calls, conn.close()
ReadTables ==
    /\ pc = "read"
    /\ tables_read' = TRUE
    /\ pc' = "merge"
    /\ UNCHANGED <<variant, db_exists, dir_exists, chooser, template, df_core, df_props,
                   merged, ws, images, wrap_cells, tmp_files, row_height, col_width,
                   ri, cj, saved, err, arg, ret>>

\* merged = df_core.merge(...); if merged.empty: raise ValueError
MergeTables ==
    /\ pc = "merge"
    /\ merged' = LeftJoin(df_core, df_props)
    /\ IF merged' = <<>> THEN Fail(Exc("ValueError", "no_compounds_matched", ""))
       ELSE /\ pc' = IF variant = "excel" THEN "sample" ELSE "workbook"
            /\ err' = err
    /\ UNCHANGED <<variant, db_exists, dir_exists, chooser, template, df_core, df_props,
                   tables_read, ws, images, wrap_cells, tmp_files, row_height, col_width,
                   ri, cj, saved, arg, ret>>

\* excel.py only: if len(merged) >= 5: merged = merged.sample(5, random_state=42)
SampleRows ==
    /\ pc = "sample"
    /\ merged' = Sample(merged)
    /\ pc' = "workbook"
    /\ UNCHANGED <<variant, db_exists, dir_exists, chooser, template, df_core, df_props,
                   tables_read, ws, images, wrap_cells, tmp_files, row_height, col_width,
                   ri, cj, saved, err, arg, ret>>

\* wb = Workbook(); ws.append(headers)
AppendHeaders ==
    /\ pc = "workbook"
    /\ ws' = <<Headers(template)>>
    /\ ri' = 1
    /\ pc' = "pass1"
    /\ UNCHANGED <<variant, db_exists, dir_exists, chooser, template, df_core, df_props,
                   tables_read, merged, images, wrap_cells, tmp_files, row_height,
                   col_width, cj, saved, err, arg, ret>>

\* one iteration of the first loop over merged.iterrows(): ws.append(excel_row)
Pass1Row ==
    /\ pc = "pass1"
    /\ IF Pass1Raises(merged[ri], template)
       THEN /\ Fail(Exc("AttributeError", "field_lower", ""))
            /\ UNCHANGED <<ws, ri, cj>>
       ELSE /\ ws' = Append(ws, ExcelRow(variant, merged[ri], template))
            /\ ri' = IF ri = Len(merged) THEN 1 ELSE ri + 1
            /\ cj' = IF ri = Len(merged) THEN 1 ELSE cj
            /\ pc' = IF ri = Len(merged) THEN "pass2" ELSE "pass1"
            /\ err' = err
    /\ UNCHANGED <<variant, db_exists, dir_exists, chooser, template, df_core, df_props,
                   tables_read, merged, images, wrap_cells, tmp_files, row_height,
                   col_width, saved, arg, ret>>

\* one iteration of the inner loop of pass 2: column cj of merged row ri
Pass2Step ==
    /\ pc = "pass2"
    /\ LET st == Pass2Cell([ws |-> ws, images |-> images, rh |-> row_height,
                            cw |-> col_width, tmp |-> tmp_files, exc |-> NoExc],
                           variant, merged[ri], cj, template[cj])
           last_col == cj = Len(template)
           last_row == ri = Len(merged)
       IN  /\ ws' = st.ws
           /\ images' = st.images
           /\ row_height' = st.rh
           /\ col_width' = st.cw
           /\ tmp_files' = st.tmp
           /\ IF st.exc # NoExc THEN Fail(st.exc) /\ UNCHANGED <<ri, cj>>
              ELSE /\ err' = err
                   /\ cj' = IF last_col THEN 1 ELSE cj + 1
                   /\ ri' = IF last_col /\ last_row THEN 0
                            ELSE IF last_col THEN ri + 1 ELSE ri
                   /\ pc' = IF last_col /\ last_row THEN "pass3" ELSE "pass2"
    /\ UNCHANGED <<variant, db_exists, dir_exists, chooser, template, df_core, df_props,
                   tables_read, merged, wrap_cells, saved, arg, ret>>

\* one iteration of the loop over the columns that sizes the sheet
Pass3Col ==
    /\ pc = "pass3"
    /\ LET touched == TouchColumn(ws, cj)
       IN  /\ ws' = touched
           /\ wrap_cells' = wrap_cells \cup WrapCells(variant, touched, cj, template[cj])
           /\ row_height' = IF variant = "excel"
                            THEN RaiseHeights(row_height, touched, cj)
                            ELSE row_height
           /\ col_width' = SetDim(col_width, cj,
                                  FittedWidth(Dim(col_width, cj), MaxLength(touched, cj)))
    /\ cj' = IF cj = Len(template) THEN 0 ELSE cj + 1
    /\ pc' = IF cj = Len(template) THEN "save" ELSE "pass3"
    /\ UNCHANGED <<variant, db_exists, dir_exists, chooser, template, df_core, df_props,
                   tables_read, merged, images, tmp_files, ri, saved, err, arg, ret>>

\* a save placed in a finally block: it also runs after a failure
Save_finally ==
    /\ pc \in {"save", "failed"}
    /\ ~saved
    /\ saved' = TRUE
    /\ pc' = IF pc = "save" THEN "done" ELSE pc
    /\ UNCHANGED <<variant, db_exists, dir_exists, chooser, template, df_core, df_props,
                   tables_read, merged, ws, images, wrap_cells, tmp_files, row_height,
                   col_width, ri, cj, err, arg, ret>>

\* wb.save(EXCEL_PATH)
Save ==
    /\ pc = "save"
    /\ saved' = TRUE
    /\ pc' = "done"
    /\ UNCHANGED <<variant, db_exists, dir_exists, chooser, template, df_core, df_props,
                   tables_read, merged, ws, images, wrap_cells, tmp_files, row_height,
                   col_width, ri, cj, err, arg, ret>>

Next ==
    \/ CheckDb
    \/ CheckTemplateDir
    \/ choose_template
    \/ ValidateTemplate
    \/ ReadTables
    \/ MergeTables
    \/ SampleRows
    \/ AppendHeaders
    \/ Pass1Row
    \/ Pass2Step
    \/ Pass3Col
    \/ Save

Spec == Init /\ [][Next]_vars

-----------------------------------------------------------------------------
(* The merge on its own, over small tables of every shape: core tables with *)
(* repeated or missing keys, properties tables with repeated keys.           *)

MaxMergeCore == 3
MaxMergeProps == 2

MergeKeys == {1, 2, 3, 4}

\* a properties row whose only property set is Corrosivity, marked with its key
MarkedProps(c) ==
    [cid |-> c, f |-> [NullProps EXCEPT ![F_Corrosivity] = StrV(<<"p">> \o Tok(c))]]

SeqsUpTo(S, n) == UNION {[1..m -> S] : m \in 0..n}

InitMerge ==
    /\ variant \in Variants
    /\ pc = "merge"
    /\ template = <<NameCol>>
    /\ \E ids \in SeqsUpTo(MergeKeys, MaxMergeCore) :
          df_core = [k \in 1..Len(ids) |-> CoreRow(ids[k])]
    /\ \E ids \in SeqsUpTo(MergeKeys, MaxMergeProps) :
          df_props = [k \in 1..Len(ids) |-> MarkedProps(ids[k])]
    /\ db_exists = TRUE /\ dir_exists = TRUE /\ chooser = "given"
    /\ tables_read = TRUE /\ merged = <<>> /\ ws = <<>> /\ images = {}
    /\ wrap_cells = {} /\ tmp_files = {}
    /\ row_height = <<>> /\ col_width = <<>>
    /\ ri = 0 /\ cj = 0 /\ saved = FALSE /\ err = NoExc
    /\ arg = None /\ ret = None

SpecMerge == InitMerge /\ [][MergeTables]_vars

KeysOf(table) == {table[k].cid : k \in 1..Len(table)}

\* at most one row per id
UniqueKeys(table) ==
    \A a, b \in 1..Len(table) : table[a].cid = table[b].cid => a = b

Merged == pc \in {"sample", "workbook", "failed"}

\* C1: the merge is a core-side left join on cid.  When the properties table
\* holds at most one row per id, the merged frame has exactly one row per
\* core row, in core order; the row carries the core fields; its properties
\* fields are those of the properties row with its id when there is one and
\* are all missing (NaN) when there is none; an id that only the properties
\* table holds has no merged row.
C1_LeftJoin ==
    (Merged /\ UniqueKeys(df_props)) =>
        /\ Len(merged) = Len(df_core)
        /\ \A k \in 1..Len(merged) :
              /\ merged[k].cid = df_core[k].cid
              /\ \A fld \in CoreFields : merged[k].f[fld] = df_core[k].f[fld]
              /\ \A fld \in PropFields :
                    IF merged[k].cid \in KeysOf(df_props)
                    THEN \E p \in 1..Len(df_props) :
                            /\ df_props[p].cid = merged[k].cid
                            /\ merged[k].f[fld] = df_props[p].f[fld]
                    ELSE merged[k].f[fld] = NaN
        /\ \A k \in 1..Len(merged) : merged[k].cid \in KeysOf(df_core)

\* core rows {1,2,3} merged with properties rows {2,4}: three rows, only the
\* second with properties
C1_Witness ==
    /\ Merged
    /\ [k \in 1..Len(df_core) |-> df_core[k].cid] = <<1, 2, 3>>
    /\ [k \in 1..Len(df_props) |-> df_props[k].cid] = <<2, 4>>
    /\ Len(merged) = 3
    /\ merged[1].f[F_Corrosivity] = NaN
    /\ merged[2].f[F_Corrosivity] = StrV(<<"p">> \o Tok(2))
    /\ merged[3].f[F_Corrosivity] = NaN

-----------------------------------------------------------------------------
(* Properties of a run of generate_excel_from_template. *)

\* pass 1 has appended every row and nothing after it has run yet
AfterPass1 == pc = "pass2" /\ ri = 1 /\ cj = 1

\* the run got as far as rendering rows
Rendering == pc \in {"pass1", "pass2", "pass3", "save", "done"}

OnlyBlankOrText(cols) == \A j \in 1..Len(cols) : cols[j].type \in {"blank", "text"}

\* C2: for a schema of blank and text columns only, pass 1 appends as many
\* data rows as the merge result has rows, whatever the size of the merge, and
\* the first sheet row holds the declared headers in schema order.
C2_RowCount ==
    (AfterPass1 /\ OnlyBlankOrText(template)) =>
        /\ Len(ws) - 1 = Len(LeftJoin(df_core, df_props))
        /\ ws[1] = [j \in 1..Len(template) |-> StrV(template[j].header)]

\* C3: a text column whose field is missing in the merged row (NaN where no
\* properties row matched, or None) gives a cell whose text is empty, never a
\* rendering of the missing value.
C3_MissingIsEmpty ==
    (AfterPass1 /\ OnlyBlankOrText(template)) =>
        \A k \in 1..Len(merged) : \A j \in 1..Len(template) :
            (template[j].type = "text" /\ ~notna(Get(merged[k], template[j].field, Empty)))
                => CellText(ws[k + 1][j]) = <<>>

IsUnregistered(col) == col.type = "computed" /\ col.function # "generate_hazards_summary"

\* C6: an unregistered computed column degrades its own cell only: every
\* appended data row has one cell per schema column, the cell of the
\* unregistered column is empty, and every other cell holds the value of the
\* schema column at its position.
C6_OneCellPerColumn ==
    AfterPass1 =>
        \A k \in 1..Len(merged) :
            /\ Len(ws[k + 1]) = Len(template)
            /\ \A j \in 1..Len(template) :
                  IF IsUnregistered(template[j])
                  THEN CellText(ws[k + 1][j]) = <<>>
                  ELSE <<ws[k + 1][j]>> = CellValues(variant, merged[k], template[j])

\* C8: a run that ends in a failure has not saved the document, and a saved
\* document comes from a run that raised nothing, appended the header and a
\* row for every merged row, and sized every column in pass 3.
C8_NoSaveOnFailure ==
    /\ (pc = "failed" \/ err # NoExc) => ~saved
    /\ saved =>
          /\ pc = "done" /\ err = NoExc
          /\ Len(ws) >= 1 + Len(merged)
          /\ \A j \in 1..Len(template) : Dim(col_width, j) # NoDim

\* a run that failed in pass 2, after the rows were appended and an image was
\* embedded
C8_Witness ==
    /\ pc = "failed" /\ err.exc = "TypeError"
    /\ Len(ws) > 1 /\ images # {}
    /\ ~saved

FiveKinds == {"text", "image", "blank", "composite", "computed"}

HasUnknownKind(cols) == \E j \in 1..Len(cols) : cols[j].type \notin FiveKinds

\* C9: a template with a column whose kind is not one of the five (or that
\* has no kind) is rejected before a table is read and before a row is
\* appended, with an error that carries the kind of the first such column; a
\* template whose columns all have one of the five kinds is not rejected by
\* this check.
C9_UnknownKindRejected ==
    /\ HasUnknownKind(template) => (~tables_read /\ ws = <<>> /\ ~Rendering)
    /\ err.what = "unknown_column_type" =>
          /\ pc = "failed" /\ err.exc = "ValueError"
          /\ \E j \in 1..Len(template) :
                /\ template[j].type \notin FiveKinds
                /\ \A i \in 1..(j - 1) : template[i].type \in FiveKinds
                /\ err.kind = template[j].type
    /\ (pc \notin {"check_db", "check_dir", "choose", "validate"}
        /\ err.what \notin {"database", "template_dir", "no_templates", "invalid_selection"})
          => (HasUnknownKind(template) <=> err.what = "unknown_column_type")

\* a template whose second column has no kind was rejected with that kind
C9_Witness ==
    /\ pc = "failed" /\ err.what = "unknown_column_type" /\ err.kind = NoType
    /\ Len(template) = 2 /\ template[1].type = "text"

ImageComponents(col) == {k \in 1..Len(col.components) : col.components[k].type = "image"}

\* C10: a template with a composite column that has no component, or more
\* than one image component, does not get as far as rendering rows.
C10_CompositeShapeRejected ==
    (\E j \in 1..Len(template) :
        /\ template[j].type = "composite"
        /\ \/ Len(template[j].components) = 0
           \/ Cardinality(ImageComponents(template[j])) > 1)
      => ~Rendering

\* C11: a template with a text or image column that does not name both a
\* field and a source is rejected by validation: it does not get as far as
\* rendering rows.
C11_FieldAndSourceRequired ==
    (\E j \in 1..Len(template) :
        /\ template[j].type \in {"text", "image"}
        /\ template[j].field = NoField)
      => ~Rendering


-----------------------------------------------------------------------------
(* summarize_text on its own, over texts built from segments of every kind. *)

MaxSegs == 6

\* a plain segment, one to be trimmed, a blank one, and one of separators only
SegKinds == {<<"a">>, <<" ", "b", ",">>, <<" ">>, <<",", "\t">>}

HelperIdle ==
    /\ template = <<NameCol>> /\ df_core = <<>> /\ df_props = <<>>
    /\ Idle

InitSummarize ==
    /\ variant \in Variants
    /\ pc = "call"
    /\ \E segs \in UNION {[1..m -> SegKinds] : m \in 1..MaxSegs} :
          arg = [segs |-> segs, text |-> StrV(Join(<<";">>, segs))]
    /\ ret = None
    /\ HelperIdle

CallSummarizeText ==
    /\ pc = "call"
    /\ ret' = summarize_text(variant, arg.text)
    /\ pc' = "returned"
    /\ UNCHANGED <<variant, arg, pipeVars>>

SpecSummarize == InitSummarize /\ [][CallSummarizeText]_vars

IsBlank(seg) == \A p \in 1..Len(seg) : seg[p] \in Whitespace

\* the segments of segs from position k on that are not blank, in order
RECURSIVE Unblank(_, _)
Unblank(segs, k) ==
    IF k > Len(segs) THEN <<>>
    ELSE (IF IsBlank(segs[k]) THEN <<>> ELSE <<segs[k]>>) \o Unblank(segs, k + 1)

\* marker + segment, for the first n segments, then the "..." line if asked
RECURSIVE Bulleted(_, _, _, _)
Bulleted(v, segs, n, trim) ==
    IF n = 0 THEN <<>>
    ELSE Bulleted(v, segs, n - 1, trim) \o Marker(v) \o Strip(segs[n], trim)

-----------------------------------------------------------------------------
(* The computed column on its own, over rows with every mix of hazard fields. *)

\* values of a hazard field: no properties row, NULL, blank, short, long
HazardValues == {NaN, None, StrV(<<" ">>), StrV(Mild), StrV(Words(11))}

InitHazards ==
    /\ variant \in Variants
    /\ pc = "call"
    /\ \E vals \in [{F_OtherSafety, F_Corrosivity, F_FireFighting, F_Exposure, F_FirstAid}
                       -> HazardValues] :
       \E last \in {<<>>, <<StrV(Mild)>>, <<StrV(Words(11))>>} :
          arg = [idx |-> 0, cid |-> 1,
                 f |-> IF last = <<>> THEN vals ELSE vals @@ (F_Accidental :> last[1])]
    /\ ret = None
    /\ HelperIdle

\* the computed branch of pass 1 for a column that names generate_hazards_summary
CallComputedColumn ==
    /\ pc = "call"
    /\ ret' = CellValues(variant, arg, SummaryCol)[1]
    /\ pc' = "returned"
    /\ UNCHANGED <<variant, arg, pipeVars>>

SpecHazards == InitHazards /\ [][CallComputedColumn]_vars

\* the hazard fields in the order of the summary, spelled out
SummaryOrder ==
    << <<"O", "t", "h", "e", "r", " ", "S", "a", "f", "e", "t", "y", " ",
         "I", "n", "f", "o", "r", "m", "a", "t", "i", "o", "n">>,
       <<"C", "o", "r", "r", "o", "s", "i", "v", "i", "t", "y">>,
       <<"F", "i", "r", "e", " ", "F", "i", "g", "h", "t", "i", "n", "g">>,
       <<"E", "x", "p", "o", "s", "u", "r", "e", " ", "C", "o", "n", "t", "r", "o", "l", " ",
         "a", "n", "d", " ", "P", "e", "r", "s", "o", "n", "a", "l", " ",
         "P", "r", "o", "t", "e", "c", "t", "i", "o", "n">>,
       <<"F", "i", "r", "s", "t", " ", "A", "i", "d", " ", "M", "e", "a", "s", "u", "r", "e", "s">>,
       <<"A", "c", "c", "i", "d", "e", "n", "t", "a", "l", " ", "R", "e", "l", "e", "a", "s", "e", " ",
         "M", "e", "a", "s", "u", "r", "e", "s">> >>

\* field is in the row, set, and not blank
Stated(row, field) ==
    /\ field \in DOMAIN row.f
    /\ row.f[field].k = "str"
    /\ ~IsBlank(row.f[field].s)

\* "<field>: <value>" lines of the stated fields among the first n of the order
RECURSIVE StatedLines(_, _)
StatedLines(row, n) ==
    IF n = 0 THEN <<>>
    ELSE StatedLines(row, n - 1)
         \o (IF Stated(row, SummaryOrder[n])
             THEN <<SummaryOrder[n] \o <<":", " ">> \o row.f[SummaryOrder[n]].s>>
             ELSE <<>>)

\* C5: the cell of a computed column with generate_hazards_summary is the
\* newline-join, in the fixed field order, of "<field>: <value>" for exactly
\* the fields that are present, not missing and not blank; with at most 40
\* words the text is returned as it is, with more it is re-wrapped: the same
\* words in order, 15 to a line (the last line holding the rest), single
\* spaces between them.
C5_HazardsSummary ==
    pc = "returned" =>
        LET text == Join(<<"\n">>, StatedLines(arg, Len(SummaryOrder)))
            words == Split(text)
            lines == SplitOn(ret.s, "\n")
        IN  /\ IsStr(ret)
            /\ IF Len(words) <= 40 THEN ret.s = text
               ELSE /\ Split(ret.s) = words
                    /\ \A k \in 1..Len(lines) :
                          /\ lines[k] = Join(<<" ">>, Split(lines[k]))
                          /\ Len(Split(lines[k])) =
                                IF k < Len(lines) THEN 15 ELSE Len(words) - 15 * (Len(lines) - 1)
                    /\ Len(Split(lines[Len(lines)])) \in 1..15
            /\ (\A n \in 1..Len(SummaryOrder) :
                   Stated(arg, SummaryOrder[n]) <=> SummaryOrder[n] = F_Corrosivity)
                 => ret.s = F_Corrosivity \o <<":", " ">> \o arg.f[F_Corrosivity].s

\* a summary of exactly 40 words in five lines, returned as it is, from a row
\* in which the sixth field is missing
C5_Witness ==
    /\ pc = "returned"
    /\ Len(Split(ret.s)) = 40
    /\ Count(ret.s, "\n") = 4
    /\ \E fld \in DOMAIN arg.f : arg.f[fld] = NaN

\* the image component of a composite column resolves to no usable image:
\* a missing value (None, NaN, empty) or a path that does not exist
ImageAbsent(row, col) ==
    LET image_path == ImagePathOf(row, col.components, None)
    IN  \/ ~IsStr(image_path)
        \/ image_path.s = <<>>
        \/ ~PathExists(image_path.s)

\* C7: in pass 2, a composite cell whose image is absent gets no image, the
\* row heights and column widths stay as they are, the sheet keeps its cell
\* values, and the run does not fail.
C7_MissingImageSkipped ==
    [][(pc = "pass2" /\ template[cj].type = "composite"
        /\ ~MissingFieldKey(template[cj])
        /\ ImageAbsent(merged[ri], template[cj]))
       => (/\ images' = images
           /\ row_height' = row_height
           /\ col_width' = col_width
           /\ ws' = ws
           /\ pc' # "failed")]_vars

-----------------------------------------------------------------------------
(* The script excel.py run twice over the same database and template: the   *)
(* first run's outcome is kept in arg and the second run starts afresh.     *)

\* what a finished run leaves to compare the next one with
Outcome == [merged |-> merged, ws |-> ws, row_height |-> row_height,
            col_width |-> col_width, wrap_cells |-> wrap_cells]

\* the outcome of an earlier run is at hand
RanBefore == "ws" \in DOMAIN arg

InitTwice == Init /\ variant = "excel"

\* the script is started again: a new process, the same files on disk
Rerun ==
    /\ pc = "done" /\ ~RanBefore
    /\ arg' = Outcome
    /\ pc' = "check_db"
    /\ db_exists' = Unknown /\ dir_exists' = Unknown /\ chooser' = Unknown
    /\ tables_read' = FALSE /\ merged' = <<>> /\ ws' = <<>> /\ images' = {}
    /\ wrap_cells' = {} /\ row_height' = <<>> /\ col_width' = <<>>
    /\ ri' = 0 /\ cj' = 0 /\ saved' = FALSE /\ err' = NoExc
    /\ UNCHANGED <<variant, template, df_core, df_props, tmp_files, ret>>

NextTwice == Next \/ Rerun

SpecTwice == InitTwice /\ [][NextTwice]_vars

\* the rows to render have been selected
Selected == pc \in {"workbook", "pass1", "pass2", "pass3", "save", "done"}

-----------------------------------------------------------------------------
(* The cell of one text-bearing column on its own: a text column, or a      *)
(* composite column with one text component, over values of every length    *)
(* and layout.                                                              *)

MaxWords == 46

\* n words laid out with single spaces; with double spaces after a leading
\* space; one to a line; as semicolon-separated segments
Layouts == {"spaced", "padded", "lines", "segments"}

LaidOut(n, layout) ==
    LET words == [k \in 1..n |-> Tok(k)]
    IN  IF layout = "spaced" THEN Join(<<" ">>, words)
        ELSE IF layout = "padded" THEN <<" ">> \o Join(<<" ", " ">>, words)
        ELSE IF layout = "lines" THEN Join(<<"\n">>, words)
        ELSE Join(<<";", " ">>, words)

\* values of the field: no properties row, NULL, or a text
ShapeValues ==
    {NaN, None} \cup {StrV(LaidOut(n, layout)) : n \in 0..MaxWords, layout \in Layouts}

\* prefix of a component: none, one written with a trailing space, one
\* without (as the template builder stores it)
Prefixes == {<<>>, <<"P", ":", " ">>, <<"P", ":">>}

ShapeFields == {F_Uses, F_Hazards, F_OtherSafety}

\* the merged row and the column spec of the call
ShapeRow(a) == [idx |-> 0, cid |-> 1, f |-> (a.field :> a.value)]

ShapeCol(a) ==
    IF a.kind = "text"
    THEN Col("text", <<>>, a.field, a.summarize, "", <<>>, "bottom")
    ELSE Col("composite", <<>>, NoField, FALSE, "",
             <<Comp("text", a.field, a.prefix, a.summarize)>>, "bottom")

InitShape ==
    /\ variant \in Variants
    /\ pc = "call"
    /\ \E kind \in {"text", "composite"}, field \in ShapeFields, summarize \in BOOLEAN,
          prefix \in Prefixes, value \in ShapeValues :
          /\ kind = "text" => prefix = <<>>
          /\ arg = [kind |-> kind, field |-> field, summarize |-> summarize,
                    prefix |-> prefix, value |-> value]
    /\ ret = None
    /\ HelperIdle

\* the branch of pass 1 that computes the value of the column for the row
CallCellValue ==
    /\ pc = "call"
    /\ ret' = CellValues(variant, ShapeRow(arg), ShapeCol(arg))[1]
    /\ pc' = "returned"
    /\ UNCHANGED <<variant, arg, pipeVars>>

SpecShape == InitShape /\ [][CallCellValue]_vars

\* the field name holds "hazard" or "safety", whatever the case of its letters
HazardNamed(field) == field \in {F_Hazards, F_OtherSafety}

\* the value of the call is a text
TextGiven == pc = "returned" /\ IsStr(arg.value)

\* the first 30 words and "..." when summarize is asked for a text of more
\* than 40 words, else the text
Truncated(a) ==
    LET words == Split(a.value.s)
    IN  IF a.summarize /\ Len(words) > 40
        THEN Join(<<" ">>, SubSeq(words, 1, 30)) \o <<".", ".", ".">>
        ELSE a.value.s

\* the value a component hands to the wrap: hazard summary, truncation or raw text
BeforeWrap(v, a) ==
    IF HazardNamed(a.field) THEN summarize_text(v, a.value).s ELSE Truncated(a)

\* the cell text without the prefix of the component
ValuePart(a, text) ==
    IF a.kind = "composite" THEN SubSeq(text, Len(a.prefix) + 1, Len(text)) ELSE text

\* C13: the 15-token wrap keeps the tokens: the wrapped text re-split gives
\* the tokens of the text in order, also after a second wrap; and the block
\* of a composite component, wrapped, prefixed and wrapped again, re-splits
\* into the tokens of prefix + value in order.
C13_WrapKeepsTokens ==
    TextGiven =>
        LET words == Split(arg.value.s)
            once == WrapWords(words)
        IN  /\ Split(once) = words
            /\ Split(WrapWords(Split(once))) = words
            /\ (arg.kind = "text" /\ ~arg.summarize) => Split(ret.s) = words
            /\ arg.kind = "composite" =>
                  Split(ret.s) = Split(arg.prefix \o BeforeWrap(variant, arg))

\* C14: hazard summarization goes by the field name, for a text column and
\* for a composite text component alike: with "hazard" or "safety" in the
\* name the cell holds the tokens of the hazard summary whether or not
\* summarize is set; with neither, the cell does not hold the hazard summary
\* (where that differs from the text) even if summarize is set.
C14_HazardByFieldName ==
    TextGiven =>
        LET summary == Split(summarize_text(variant, arg.value).s)
            cell == Split(ValuePart(arg, ret.s))
        IN  IF HazardNamed(arg.field) THEN cell = summary
            ELSE summary # Split(arg.value.s) => cell # summary

\* C15: for a field that is not hazard-named, with summarize a text of more
\* than 40 tokens is cut to its first 30 tokens followed by "..." and a text
\* of 40 tokens or fewer keeps all its tokens; without summarize every token
\* is kept.
C15_TruncateOver40 ==
    (TextGiven /\ ~HazardNamed(arg.field)) =>
        LET words == Split(arg.value.s)
            cell == Split(ValuePart(arg, ret.s))
        IN  IF arg.summarize /\ Len(words) > 40
            THEN cell = [k \in 1..30 |-> IF k < 30 THEN words[k]
                                                    ELSE words[k] \o <<".", ".", ".">>]
            ELSE cell = words

\* C16: whatever summarization came before, no line of the cell holds more
\* than 15 tokens, and a cell of more than 15 tokens is made of lines of 15
\* tokens, the last one holding the rest.
C16_WrapUnconditional ==
    TextGiven =>
        LET lines == SplitOn(ret.s, "\n")
            total == Len(Split(ret.s))
        IN  /\ \A k \in 1..Len(lines) : Len(Split(lines[k])) <= 15
            /\ total > 15 =>
                  \A k \in 1..Len(lines) :
                     Len(Split(lines[k])) = IF k < Len(lines) THEN 15
                                            ELSE total - 15 * (Len(lines) - 1)

-----------------------------------------------------------------------------
(* Properties of pass 2 and pass 3. *)

\* the sheet row into which pass 1 appended the merged record with index label rec
AppendedAt(rec) == 1 + CHOOSE k \in 1..Len(merged) : merged[k].idx = rec

\* pass 2 is under way or has just ended
InPass2 == pc = "pass2" \/ (pc = "pass3" /\ cj = 1)

\* C17: the image made in pass 2 for a merged record and a composite column
\* is anchored in the sheet row that pass 1 appended for that record, in that
\* column, and the row heights that pass 2 raises are those of such rows, for
\* every size of the merge and also after the sampling of excel.py.
C17_AnchorAtOwnRow ==
    InPass2 =>
        /\ \A img \in images :
              /\ img.row = AppendedAt(img.rec)
              /\ template[img.col].type = "composite"
              /\ Dim(row_height, AppendedAt(img.rec)) >= 3 * img.h
        /\ \A r \in DOMAIN row_height : \E img \in images : r = AppendedAt(img.rec)

\* every column of the template puts a cell into the appended row
NoCellDropped == \A j \in 1..Len(template) : ~IsUnregistered(template[j])

\* C18: the text lines drawn on a composite image in pass 2 are the text that
\* pass 1 stored in the cell of the same record and column: same components,
\* prefixes, hazard summarization, truncation and 15-token wrapping.
C18_ImageTextIsCellText ==
    NoCellDropped =>
        \A img \in images :
            Join(<<"\n">>, img.lines) = CellText(ws[AppendedAt(img.rec)][img.col])

\* pass 3 has sized every column
Sized == pc \in {"save", "done"}

\* C19 as stated: after pass 3 every embedded image fits its cell: the row is
\* at least 0.75 times the image height high and the column at least a sixth
\* of the image width wide, for every image size.
C19_AsStated ==
    Sized =>
        \A img \in images :
            /\ Dim(row_height, img.row) >= 3 * img.h
            /\ Dim(col_width, img.col) >= img.w

\* C19 as amended: after pass 3 the row of every embedded image is at least
\* 0.75 times the image height high, and its column is at least as wide as
\* the smaller of a sixth of the image width and the maximum width 70: an
\* image wider than 420 pixels leaves its column at exactly 70.
C19_Amended ==
    Sized =>
        \A img \in images :
            /\ Dim(row_height, img.row) >= 3 * img.h
            /\ Dim(col_width, img.col) >= Min(img.w, 6 * 70)
            /\ img.w > 6 * 70 => Dim(col_width, img.col) = 6 * 70

\* a finished sheet with an image 600 pixels wide in a column left at 70 and
\* in a row high enough for it
C19_Witness ==
    /\ pc = "done"
    /\ \E img \in images :
          /\ img.w = 600
          /\ Dim(col_width, img.col) = 6 * 70
          /\ Dim(row_height, img.row) >= 3 * img.h

\* the length of the longest line (text between line breaks) in column j,
\* header included
LongestLine(j) ==
    LET lens == {Len(line) : line \in
                    UNION {{SplitOn(CellText(ws[i][j]), "\n")[k] :
                               k \in 1..Len(SplitOn(CellText(ws[i][j]), "\n"))} :
                           i \in {i \in 1..Len(ws) : j <= Len(ws[i])}}}
    IN  CHOOSE n \in lens \cup {0} : \A m \in lens : m <= n

\* the width pass 2 left on column j: the widest image of the column over 6,
\* nothing when the column has no image
WidthOfPass2(j) ==
    LET ws_ == {img.w : img \in {i \in images : i.col = j}}
    IN  IF ws_ = {} THEN 0 ELSE CHOOSE n \in ws_ : \A m \in ws_ : m <= n

\* C20: after pass 3 the width of every column is
\* min(70, max(10, L / 1.5 + 2, width set in pass 2)) with L the length of the
\* longest single line of the column's cells, header included; so every
\* width lies between 10 and 70.
C20_ColumnWidth ==
    Sized =>
        \A j \in 1..Len(template) :
            /\ Dim(col_width, j) =
                  Min(6 * 70, Max(Max(6 * 10, 4 * LongestLine(j) + 12), WidthOfPass2(j)))
            /\ Dim(col_width, j) >= 6 * 10
            /\ Dim(col_width, j) <= 6 * 70

-----------------------------------------------------------------------------
(* Row heights, phase order and temporary files. *)

\* the number of lines of the cell of row i and column j
LinesOfCell(i, j) == Count(CellText(ws[i][j]), "\n") + 1

\* C21: after pass 3 of excel.py every sheet row with a cell of k > 1 lines
\* is at least 15 * k high, for every such cell of the row, and no step of
\* pass 2 or pass 3 lowers the height of a row.
C21_RowHeights ==
    /\ [](( Sized /\ variant = "excel") =>
            \A i \in 1..Len(ws) : \A j \in 1..Len(ws[i]) :
                LinesOfCell(i, j) > 1 => Dim(row_height, i) >= 4 * 15 * LinesOfCell(i, j))
    /\ [][(variant = "excel" /\ pc \in {"pass2", "pass3"}) =>
             \A r \in DOMAIN row_height :
                 /\ r \in DOMAIN row_height'
                 /\ row_height'[r] >= row_height[r]]_vars

\* a sheet finished by excel.py in which one row keeps the height pass 2 gave
\* it for its image, above 15 per line, and another row was raised by pass 3
\* to 15 per line
C21_Witness ==
    /\ pc = "done" /\ variant = "excel"
    /\ \E img \in images : \E j \in 1..Len(ws[img.row]) :
          /\ LinesOfCell(img.row, j) > 1
          /\ Dim(row_height, img.row) = 3 * img.h
          /\ 3 * img.h > 4 * 15 * LinesOfCell(img.row, j)
    /\ \E i \in 1..Len(ws) : \E j \in 1..Len(ws[i]) :
          /\ LinesOfCell(i, j) > 1
          /\ Dim(row_height, i) = 4 * 15 * LinesOfCell(i, j)

\* pass 1 is complete: the header row, then one row per selected record with
\* its cells in schema order
Pass1Complete ==
    /\ Len(ws) >= 1 + Len(merged)
    /\ ws[1] = [j \in 1..Len(template) |-> StrV(template[j].header)]
    /\ \A k \in 1..Len(merged) :
          \A j \in 1..Len(ExcelRow(variant, merged[k], template)) :
              ws[k + 1][j] = ExcelRow(variant, merged[k], template)[j]

\* the rows chosen for rendering are in the order of the merge result
InMergeOrder == \A k, m \in 1..Len(merged) : k < m => merged[k].idx < merged[m].idx

\* what every state of a run shows of the order of the phases
PhasesInState ==
    /\ tables_read => /\ pc \notin {"check_db", "check_dir", "choose", "validate"}
                      /\ \A j \in 1..Len(template) : template[j].type \in FiveKinds
    /\ pc = "pass1" => (images = {} /\ row_height = <<>> /\ col_width = <<>>)
    /\ (images # {} \/ row_height # <<>> \/ col_width # <<>>) => Pass1Complete
    /\ wrap_cells # {} => pc \in {"pass3", "save", "done"}
    /\ saved => /\ pc = "done"
                /\ Pass1Complete
                /\ \A j \in 1..Len(template) : Dim(col_width, j) # NoDim

\* what every step of a run shows of the order of the phases
PhasesInStep ==
    /\ tables_read' # tables_read => pc = "read"
    /\ ws' # ws /\ pc \in {"workbook", "pass1"} => images = {}
    /\ images' # images => (pc = "pass2" /\ wrap_cells = {})
    /\ pc = "pass3" => (images' = images /\ pc' \in {"pass3", "save"})
    /\ saved' # saved => (pc = "save" /\ cj = 0)

\* C22: the phases of a run are strictly ordered: validation ends before the
\* tables are read; the header and every data row are appended, the rows in
\* merge order and the cells in schema order, before an image is embedded;
\* every image is embedded before pass 3 sizes anything; the document is
\* saved only after pass 3 has sized every column.
C22_PhaseOrder ==
    /\ [](PhasesInState /\ (Rendering => InMergeOrder))
    /\ [][PhasesInStep]_vars

\* the run is over, by the save or by an exception
Terminated == pc \in {"done", "failed"}

\* C23: every temporary composite file is released: each embedded image was
\* written to a file of its own, and when the run is over, by the save or by
\* a failure, none of the files it created remains on disk.
C23_TempFilesReleased ==
    /\ Cardinality(tmp_files) >= Cardinality(images)
    /\ Terminated => tmp_files = {}

\* the image of the cell exists and the cell has no text line
ImageWithoutText(row, col) ==
    LET image_path == ImagePathOf(row, col.components, None)
    IN  /\ IsStr(image_path) /\ image_path.s # <<>> /\ PathExists(image_path.s)
        /\ TextLines(row, col.components) = <<>>

\* C24: in pass 2, a composite cell with an existing image and no text line
\* does not end the run: the image is made and embedded and the pass goes on
\* with the next cell.
C24_NoTextNoAbort ==
    [][(pc = "pass2" /\ template[cj].type = "composite"
        /\ ~MissingFieldKey(template[cj])
        /\ ImageWithoutText(merged[ri], template[cj]))
       => (/\ pc' # "failed"
           /\ err' = NoExc
           /\ \E img \in images' : img.rec = merged[ri].idx /\ img.col = cj)]_vars

====
